---------------------------- MODULE Spec2Model ----------------------------
(***************************************************************************)
(* A model of MyTranscriber (src/main.py): the transcription pipeline      *)
(* (TranscriptionWorker.run and its helpers), the batch engine             *)
(* (TranscriptionEngine.transcribe_files), the downloader                  *)
(* (VideoDownloader) and the part of MainWindow that owns the file table   *)
(* and the Download button and reacts to the workers' signals.             *)
(*                                                                         *)
(* Strings whose characters the code inspects (paths, extensions, segment  *)
(* texts, transcripts) are sequences of one-character strings, so that     *)
(* lower(), splitext(), strip() and join() are computed, not assumed.      *)
(* Times are in tenths of a second.                                        *)
(***************************************************************************)
EXTENDS Integers, Sequences, FiniteSets, TLC

VARIABLES
    rows,       \* MainWindow.file_table: sequence of [path, status]
    workers,    \* TranscriptionWorker objects whose run() is live or just ended
    sigq,       \* signals queued to the GUI thread, in emission order
    batch,      \* the on_batch_run / transcribe_files call in progress, if any
    runs,       \* how many worker threads have been started so far
    downloads,  \* VideoDownloader objects, in the order they were started
    dlq,        \* signals of the downloaders queued to the GUI thread
    download_btn,   \* MainWindow.download_btn.isEnabled()
    call        \* a helper of the pipeline called on its own: input and result

\* what the download side of the window owns
dlvars == <<downloads, dlq, download_btn>>

vars == <<rows, workers, sigq, batch, runs, downloads, dlq, download_btn, call>>

---------------------------------------------------------------------------
(* Bounds of the model *)

\* rows the file table may hold
MaxRows == 2

\* TranscriptionWorker threads that may be live at once (worker 0 is the
\* synchronous worker of a batch run, workers 1..MaxThreads are QThreads)
MaxThreads == 1

\* worker threads started in one behaviour
MaxRuns == 1

\* downloads started in one behaviour
MaxDownloads == 2

\* calls of the progress hook during one download
MaxHooks == 2

---------------------------------------------------------------------------
(* CONFIG (the embedded YAML document) *)

supported_extensions ==
    { <<".", "m", "p", "3">>, <<".", "w", "a", "v">>, <<".", "f", "l", "a", "c">>,
      <<".", "o", "g", "g">>, <<".", "m", "4", "a">>, <<".", "a", "a", "c">>,
      <<".", "m", "p", "4">>, <<".", "m", "o", "v">>, <<".", "a", "v", "i">>,
      <<".", "m", "k", "v">> }

valid_models == {"tiny", "base", "small", "medium", "large", "large-v2"}

audio_exts ==
    { <<".", "w", "a", "v">>, <<".", "m", "p", "3">>, <<".", "f", "l", "a", "c">>,
      <<".", "o", "g", "g">>, <<".", "m", "4", "a">>, <<".", "a", "a", "c">> }

STATUS_NOT_STARTED == 0
STATUS_IN_PROGRESS == 1
STATUS_DONE == 2
STATUS_ERROR == 3

---------------------------------------------------------------------------
(* str.lower() and os.path.splitext() *)

UpperChars == <<"A", "B", "C", "D", "E", "F", "G", "H", "I", "J", "K", "L", "M",
                "N", "O", "P", "Q", "R", "S", "T", "U", "V", "W", "X", "Y", "Z">>
LowerChars == <<"a", "b", "c", "d", "e", "f", "g", "h", "i", "j", "k", "l", "m",
                "n", "o", "p", "q", "r", "s", "t", "u", "v", "w", "x", "y", "z">>

LowerChar(c) ==
    IF \E i \in 1..26 : UpperChars[i] = c
    THEN LowerChars[CHOOSE i \in 1..26 : UpperChars[i] = c]
    ELSE c

Lower(s) == [i \in 1..Len(s) |-> LowerChar(s[i])]

\* str.rfind(c): the last index of c in s, 0 when absent (1-based)
RFind(s, c) ==
    IF \E i \in 1..Len(s) : s[i] = c
    THEN CHOOSE i \in 1..Len(s) : s[i] = c /\ \A j \in (i+1)..Len(s) : s[j] # c
    ELSE 0

\* genericpath._splitext with sep "/" and extsep ".": <<root, ext>>.  The
\* extension starts at the last dot after the last separator, unless only
\* dots lie between that separator and the dot (a leading-dot file name).
splitext(p) ==
    LET sepIndex == RFind(p, "/")
        dotIndex == RFind(p, ".")
    IN  IF dotIndex > sepIndex
           /\ \E k \in (sepIndex + 1)..(dotIndex - 1) : p[k] # "."
        THEN <<SubSeq(p, 1, dotIndex - 1), SubSeq(p, dotIndex, Len(p))>>
        ELSE <<p, <<>>>>

\* PathExt as it would be without the call of lower()
PathExtCaseSensitive(path) == splitext(path)[2]

\* ext = os.path.splitext(self.file_path.lower())[1]
PathExt(path) == splitext(Lower(path))[2]

---------------------------------------------------------------------------
(* The media files of the model and what the recognition model hears in   *)
(* them                                                                    *)

P_a == <<"a", ".", "m", "p", "3">>
P_A == <<"A", ".", "M", "P", "3">>
P_v == <<"v", ".", "m", "p", "4">>
P_V == <<"V", ".", "M", "k", "v">>
P_n == <<"n", ".", "t", "x", "t">>
P_N == <<"N", ".", "M", "P", "3", "x">>
P_x == <<"n", "o", "e", "x", "t">>
P_h == <<".", "w", "a", "v">>
P_d == <<"d", ".", "m", "p", "4", "/", "f">>

AllPaths == {P_a, P_A, P_v, P_V, P_n, P_N, P_x, P_h, P_d}

\* the files the user adds to the table in the window-level specification
GuiPaths == {P_A, P_v}

\* the texts typed into the model box
ModelChoices == {"base", "bogus"}

\* the model box as the window-level specification leaves it
GuiModels == {"base"}

\* the files added to the table in the batch specification
BatchPaths == {P_A, P_v, P_n}

Seg(start, end, text) == [start |-> start, end |-> end, text |-> text]

\* result["segments"] of model.transcribe for each file: times in tenths of
\* a second, texts as whisper gives them (with their leading blank)
Segments(path) ==
    CASE path = P_a -> << Seg(0, 25, <<" ", "h", "i">>),
                          Seg(37259, 37300, <<" ", "y", "o", " ">>) >>
      [] path = P_v -> << Seg(12, 600, <<" ", "o", "k">>) >>
      [] path = P_V -> << Seg(0, 10, <<"a">>), Seg(10, 20, <<" ", "b">>),
                          Seg(36000, 36600, <<"c", " ">>) >>
      [] OTHER -> << >>

\* the labels uuid4().hex[:4].upper() may give
SpeakerIds == { <<"S", "p", "e", "a", "k", "e", "r", "_", "0", "A", "1", "F">>,
                <<"S", "p", "e", "a", "k", "e", "r", "_", "9", "C", "3", "E">> }

---------------------------------------------------------------------------
(* str.strip(), str.join() and format_timestamp *)

Whitespace == {" ", "\t", "\n"}

RECURSIVE LStrip(_)
LStrip(s) == IF s # <<>> /\ Head(s) \in Whitespace THEN LStrip(Tail(s)) ELSE s

RECURSIVE RStrip(_)
RStrip(s) ==
    IF s # <<>> /\ s[Len(s)] \in Whitespace
    THEN RStrip(SubSeq(s, 1, Len(s) - 1))
    ELSE s

\* seg["text"].strip()
Strip(s) == RStrip(LStrip(s))

\* sep.join(lines)
RECURSIVE Join(_, _)
Join(lines, sep) ==
    IF lines = <<>> THEN <<>>
    ELSE IF Len(lines) = 1 THEN lines[1]
    ELSE lines[1] \o sep \o Join(Tail(lines), sep)

DigitChars == <<"0", "1", "2", "3", "4", "5", "6", "7", "8", "9">>

RECURSIVE Digits(_)
Digits(n) ==
    IF n < 10 THEN <<DigitChars[n + 1]>>
    ELSE Digits(n \div 10) \o <<DigitChars[(n % 10) + 1]>>

\* the number a string of decimal digits stands for
DigitValue(c) == (CHOOSE i \in 1..10 : DigitChars[i] = c) - 1

IsDigits(s) == \A i \in 1..Len(s) : \E k \in 1..10 : DigitChars[k] = s[i]

RECURSIVE ParseNat(_)
ParseNat(s) ==
    IF s = <<>> THEN 0
    ELSE 10 * ParseNat(SubSeq(s, 1, Len(s) - 1)) + DigitValue(s[Len(s)])

\* f"{n:02d}"
Pad2(n) == IF n < 10 THEN <<"0">> \o Digits(n) ELSE Digits(n)

\* format_timestamp as it would be with the hours wrapped at a day
format_timestamp_wrapped(sec) ==
    LET h == (sec \div 36000) % 24
        m == (sec % 36000) \div 600
        s == (sec % 600) \div 10
    IN  Pad2(h) \o <<":">> \o Pad2(m) \o <<":">> \o Pad2(s)

\* format_timestamp(sec), sec given in tenths of a second:
\* h = int(sec // 3600), m = int((sec % 3600) // 60), s = int(sec % 60)
format_timestamp(sec) ==
    LET h == sec \div 36000
        m == (sec % 36000) \div 600
        s == (sec % 600) \div 10
    IN  Pad2(h) \o <<":">> \o Pad2(m) \o <<":">> \o Pad2(s)

\* DiarizedLine as it would be without the strip() of the segment text
DiarizedLineUntrimmed(seg, spkid) ==
    <<"[">> \o format_timestamp(seg.start) \o <<" ", "-", " ">>
        \o format_timestamp(seg.end) \o <<"]", " ">> \o spkid
        \o <<":", " ">> \o seg.text

\* text = seg["text"].strip(); f"[{start_str} - {end_str}] {spkid}: {text}"
DiarizedLine(seg, spkid) ==
    <<"[">> \o format_timestamp(seg.start) \o <<" ", "-", " ">>
        \o format_timestamp(seg.end) \o <<"]", " ">> \o spkid
        \o <<":", " ">> \o Strip(seg.text)

\* "\n".join([seg["text"] for seg in result["segments"]])
PlainText(segments) ==
    Join([i \in 1..Len(segments) |-> segments[i].text], <<"\n">>)

---------------------------------------------------------------------------
(* Signals and messages *)

Progress(val) == [sig |-> "progress", val |-> val]
Finished(path, text, tr) ==
    [sig |-> "finished", path |-> path, text |-> text, is_translation |-> tr]
Error(path, msg) == [sig |-> "error", path |-> path, msg |-> msg]

\* str(e) of the exceptions the pipeline meets, as sequences of fragments
MsgUnsupported(ext) == <<"File extension '">> \o ext \o <<"' not supported.">>
MsgFFmpeg == <<"FFmpeg extraction error: ", "ffmpeg.Error">>
MsgInvalidModel(m) == <<"Unsupported model '", m, "' is not in ", "valid_models">>
MsgLoadFailed == <<"whisper.load_model failed">>
MsgTranscribe == <<"model.transcribe failed">>
MsgSlice == <<"ffmpeg.Error">>
MsgRemove == <<"os.remove failed">>
MsgSpkrec == <<"SpeakerRecognition.from_hparams failed">>

\* f"Model loading error: {str(me)}"
ModelLoadingError(me) == <<"Model loading error: ">> \o me

\* logging.error(f"TranscriptionWorker error on {self.file_path}: {str(e)}")
LogLine(path, msg) == [level |-> "ERROR", path |-> path, msg |-> msg]

---------------------------------------------------------------------------
(* TranscriptionWorker *)

NoWorker == [pc |-> "absent"]
NoPath == <<>>

\* tempfile.mkdtemp() + uuid4().hex + ".wav": a path no input file has
TmpWavPath == <<"/", "t", "m", "p", "/", "u", "u", "i", "d", ".", "w", "a", "v">>

\* tempfile.mkdtemp() + "seg_" + uuid4().hex + ".wav": the slice file of a
\* segment, a path no input file has
SegWavPath == <<"/", "t", "m", "p", "/", "s", "e", "g", "_", "u", "u", "i", "d",
                ".", "w", "a", "v">>

WorkerIds == 0..MaxThreads
ThreadIds == 1..MaxThreads

\* TranscriptionWorker.__init__; connected: whether the three signals are
\* connected to MainWindow's slots (start_transcription_thread) or to
\* nothing (transcribe_files)
NewWorker(file_path, do_translation, do_diarization, model_choice, connected) ==
    [ pc |-> "start",
      file_path |-> file_path,
      language |-> "auto",
      do_translation |-> do_translation,
      do_diarization |-> do_diarization,
      model_choice |-> model_choice,
      device |-> "cpu",
      connected |-> connected,
      emitted |-> <<>>,           \* every signal emitted, in order
      calls |-> {},               \* the collaborators run() has called
      logged |-> <<>>,            \* the lines run() wrote to transcriber.log
      failed_at |-> "none",       \* history: the step whose failure ended run()
      extracted_audio |-> NoPath,
      tmp_wav |-> "none",         \* the temporary wav: none, exists, removed
      segments |-> <<>>,
      seg_i |-> 0,
      seg_wav |-> "none",         \* the current slice file: none, exists, removed
      diarized_output |-> <<>>,
      final_text |-> <<>>,
      written |-> {},             \* history: the paths ffmpeg was told to write
      removed |-> {} ]            \* history: the paths given to os.remove

\* one step of run(): the worker becomes rec and emits sigs; a signal with
\* no slot connected goes nowhere
Step(w, rec, sigs) ==
    /\ workers' = [workers EXCEPT ![w] = [rec EXCEPT !.emitted = @ \o sigs]]
    /\ sigq' = IF workers[w].connected THEN sigq \o sigs ELSE sigq
    /\ UNCHANGED <<rows, batch, runs, dlvars, call>>

\* except Exception as e: logging.error(...); self.error.emit(file_path, str(e))
Caught(w, rec, at, msg) ==
    Step(w,
         [rec EXCEPT !.pc = "done",
                     !.failed_at = at,
                     !.logged = @ \o <<LogLine(rec.file_path, msg)>>],
         <<Error(rec.file_path, msg)>>)

\* self.progress.emit(10)
RunStart(w) ==
    /\ workers[w].pc = "start"
    /\ Step(w, [workers[w] EXCEPT !.pc = "validate"], <<Progress(10)>>)

\* the extension check
RunValidate(w) ==
    LET me == workers[w]
        ext == PathExt(me.file_path)
    IN  /\ me.pc = "validate"
        /\ IF ext \notin supported_extensions
           THEN Caught(w, me, "validate", MsgUnsupported(ext))
           ELSE Step(w, [me EXCEPT !.pc = "extract"], <<>>)

\* IsPureAudio as it would be without the call of lower()
IsPureAudioCaseSensitive(path) == splitext(path)[2] \in audio_exts

\* _, ext = os.path.splitext(path.lower()); ext in audio_exts
IsPureAudio(path) == splitext(Lower(path))[2] \in audio_exts

\* extract_audio_if_needed(path): the ways the call can end.  A pure-audio
\* path comes back as it is; any other path is transcoded by ffmpeg into a
\* fresh temporary wav, or ffmpeg.Error is turned into RuntimeError, with
\* or without a partial output file left behind
extract_audio_if_needed(path) ==
    IF IsPureAudio(path)
    THEN { [raised |-> FALSE, ret |-> path, ffmpeg |-> FALSE, tmp_wav |-> "none"] }
    ELSE { [raised |-> FALSE, ret |-> TmpWavPath, ffmpeg |-> TRUE,
            tmp_wav |-> "exists"] }
         \cup { [raised |-> TRUE, ret |-> NoPath, ffmpeg |-> TRUE, tmp_wav |-> left] :
                  left \in {"none", "exists"} }

\* extracted_audio = self.extract_audio_if_needed(self.file_path);
\* self.progress.emit(30)
RunExtract(w) ==
    LET me == [workers[w] EXCEPT !.calls = @ \cup {"extract_audio_if_needed"}]
    IN  /\ me.pc = "extract"
        /\ \E o \in extract_audio_if_needed(me.file_path) :
             LET after == [me EXCEPT
                             !.calls = IF o.ffmpeg THEN @ \cup {"ffmpeg"} ELSE @,
                             !.written = IF o.ffmpeg THEN @ \cup {TmpWavPath} ELSE @,
                             !.tmp_wav = o.tmp_wav]
             IN  IF o.raised
                 THEN Caught(w, after, "extract", MsgFFmpeg)
                 ELSE Step(w, [after EXCEPT !.pc = "load",
                                            !.extracted_audio = o.ret],
                           <<Progress(30)>>)

\* ModelErrorNextPc as it would be without the return: run() goes on to
\* the recognition
ModelErrorFallsThrough == "transcribe"

\* the return of the inner except: run() ends after a model error
ModelErrorNextPc == "done"

\* except Exception as me: self.error.emit(file_path, "Model loading
\* error: ..."); return
ModelError(w, rec, me) ==
    Step(w, [rec EXCEPT !.pc = ModelErrorNextPc, !.failed_at = "load"],
         <<Error(rec.file_path, ModelLoadingError(me))>>)

\* model = load_transcriber_model(self.model_choice, device=self.device);
\* self.progress.emit(40)
RunLoadModel(w) ==
    LET me == [workers[w] EXCEPT !.calls = @ \cup {"load_transcriber_model"}]
    IN  /\ me.pc = "load"
        /\ IF me.model_choice \notin valid_models
           THEN ModelError(w, me, MsgInvalidModel(me.model_choice))
           ELSE \/ Step(w, [me EXCEPT !.pc = "transcribe",
                                      !.calls = @ \cup {"whisper.load_model"}],
                        <<Progress(40)>>)
                \/ ModelError(w, [me EXCEPT !.calls = @ \cup {"whisper.load_model"}],
                              MsgLoadFailed)

\* result = model.transcribe(...), then progress 70 before diarization or
\* the plain join of the segment texts
RunTranscribe(w) ==
    LET me == [workers[w] EXCEPT !.calls = @ \cup {"model.transcribe"}]
        segs == Segments(me.file_path)
    IN  /\ me.pc = "transcribe"
        /\ \/ Caught(w, me, "transcribe", MsgTranscribe)
           \/ IF me.do_diarization
              THEN Step(w, [me EXCEPT !.segments = segs,
                                      !.seg_i = 1,
                                      !.pc = IF segs = <<>> THEN "finish" ELSE "slice"],
                        <<Progress(70)>>)
              ELSE Step(w, [me EXCEPT !.segments = segs,
                                      !.final_text = PlainText(segs),
                                      !.pc = "finish"],
                        <<>>)

\* DiarFailure as it would be if perform_diarization caught the exception
\* of a segment and went on with the next one
DiarFailureSkipsSegment(w, rec, at, msg) ==
    LET last == rec.seg_i = Len(rec.segments)
    IN  Step(w, [rec EXCEPT
                   !.failed_at = at,
                   !.seg_i = @ + 1,
                   !.final_text = IF last THEN Join(rec.diarized_output, <<"\n">>)
                                  ELSE @,
                   !.pc = IF last THEN "finish" ELSE "slice"],
             <<>>)

\* an exception inside the loop of perform_diarization: nothing catches it
\* before the except of run()
DiarFailure(w, rec, at, msg) == Caught(w, rec, at, msg)

\* perform_diarization, one segment: the ffmpeg slice into a fresh seg_wav
DiarSlice(w) ==
    LET me == [workers[w] EXCEPT !.calls = @ \cup {"ffmpeg.slice"},
                                 !.written = @ \cup {SegWavPath}]
    IN  /\ me.pc = "slice"
        /\ \/ Step(w, [me EXCEPT !.pc = "tag", !.seg_wav = "exists"], <<>>)
           \* ffmpeg.Error leaves perform_diarization at once
           \/ \E left \in {"none", "exists"} :
                DiarFailure(w, [me EXCEPT !.seg_wav = left], "slice", MsgSlice)

\* perform_diarization, one segment: identify_speaker, the line, and
\* os.remove(seg_wav); after the last segment the lines are joined
DiarTag(w) ==
    LET me == workers[w]
        seg == me.segments[me.seg_i]
        last == me.seg_i = Len(me.segments)
    IN  /\ me.pc = "tag"
        /\ \E spkid \in SpeakerIds :
            LET lines == Append(me.diarized_output, DiarizedLine(seg, spkid))
                tagged == [me EXCEPT !.calls = @ \cup {"identify_speaker"},
                                     !.diarized_output = lines,
                                     !.removed = @ \cup {SegWavPath}]
            IN  \/ Step(w, [tagged EXCEPT
                              !.seg_wav = "removed",
                              !.seg_i = @ + 1,
                              !.final_text = IF last THEN Join(lines, <<"\n">>) ELSE @,
                              !.pc = IF last THEN "finish" ELSE "slice"],
                        <<>>)
                \* os.remove(seg_wav) raises
                \/ DiarFailure(w, tagged, "remove_slice", MsgRemove)

\* SuccessSignals with the two emits in the other order
SuccessSignalsSwapped(me) ==
    << Finished(me.file_path, me.final_text, me.do_translation), Progress(100) >>

\* self.progress.emit(100); self.finished.emit(file_path, final_text,
\* do_translation)
SuccessSignals(me) ==
    << Progress(100), Finished(me.file_path, me.final_text, me.do_translation) >>

RunFinish(w) ==
    /\ workers[w].pc = "finish"
    /\ Step(w, [workers[w] EXCEPT !.pc = "cleanup"], SuccessSignals(workers[w]))

\* os.path.exists(path) at the end of run(): the input file is there, the
\* temporary wav is there when ffmpeg made it
PathExists(me, path) ==
    IF path = me.file_path THEN TRUE ELSE me.tmp_wav = "exists"

\* ShouldRemove as it would be without the comparison with the input path
ShouldRemoveWhateverPath(me) == PathExists(me, me.extracted_audio)

\* extracted_audio != self.file_path and os.path.exists(extracted_audio)
ShouldRemove(me) ==
    me.extracted_audio # me.file_path /\ PathExists(me, me.extracted_audio)

\* if extracted_audio != self.file_path and os.path.exists(extracted_audio):
\*     os.remove(extracted_audio)
RunCleanup(w) ==
    LET me == workers[w]
        removing == [me EXCEPT !.calls = @ \cup {"os.remove"},
                               !.removed = @ \cup {me.extracted_audio}]
    IN  /\ me.pc = "cleanup"
        /\ IF ShouldRemove(me)
           THEN \/ Step(w, [removing EXCEPT
                              !.pc = "done",
                              !.tmp_wav = IF me.extracted_audio = TmpWavPath
                                          THEN "removed" ELSE @],
                        <<>>)
                \* os.remove raises inside the try
                \/ Caught(w, removing, "cleanup", MsgRemove)
           ELSE Step(w, [me EXCEPT !.pc = "done"], <<>>)

---------------------------------------------------------------------------
(* MainWindow: the file table *)

Row(path, status) == [path |-> path, status |-> status]

\* add_file_to_table as it would be if it built the table anew
add_file_to_table_anew(table, path) ==
    Append([r \in 1..Len(table) |-> Row(table[r].path, STATUS_NOT_STARTED)],
           Row(path, STATUS_NOT_STARTED))

\* add_file_to_table(path): a new last row, "Not Started"
add_file_to_table(table, path) == Append(table, Row(path, STATUS_NOT_STARTED))

\* find_row_by_path(path): the first row holding path (rows counted from
\* 1 here), 0 for the code's -1
find_row_by_path(table, path) ==
    IF \E r \in 1..Len(table) : table[r].path = path
    THEN CHOOSE r \in 1..Len(table) :
            table[r].path = path /\ \A q \in 1..(r - 1) : table[q].path # path
    ELSE 0

\* SetStatusByPath as it would be if it did not look for the row
SetStatusEveryRow(table, path, status) ==
    [r \in 1..Len(table) |-> Row(table[r].path, status)]

\* row = find_row_by_path(path); if row >= 0: set_table_item_status(...)
SetStatusByPath(table, path, status) ==
    LET row == find_row_by_path(table, path)
    IN  IF row > 0 THEN [table EXCEPT ![row].status = status] ELSE table

IdleBatch == [phase |-> "idle"]

\* the GUI thread is inside on_batch_run and handles no other event
GuiThreadFree == batch.phase = "idle"

\* on_browse / dropEvent: the user adds one file
on_browse(path) ==
    /\ GuiThreadFree
    /\ Len(rows) < MaxRows
    /\ rows' = add_file_to_table(rows, path)
    /\ UNCHANGED <<workers, sigq, batch, runs, dlvars, call>>

\* start_transcription_thread: a new worker in self.worker, connected and
\* started; an exception of the constructor leaves the handler
start_transcription_thread(file_path, do_translation, model_choice, diar) ==
    \E w \in ThreadIds :
        /\ workers[w].pc = "absent"
        /\ \A v \in 1..(w - 1) : workers[v].pc # "absent"
        /\ runs < MaxRuns
        /\ runs' = runs + 1
        /\ \/ workers' = [workers EXCEPT ![w] =
                            NewWorker(file_path, do_translation, diar,
                                      model_choice, TRUE)]
           \/ UNCHANGED workers

\* on_transcribe / on_translate on the current row
StartOnRow(row, do_translation, model_choice, diar) ==
    /\ GuiThreadFree
    /\ rows' = [rows EXCEPT ![row].status = STATUS_IN_PROGRESS]
    /\ start_transcription_thread(rows[row].path, do_translation, model_choice, diar)
    /\ UNCHANGED <<sigq, batch, dlvars, call>>

on_transcribe(row, model_choice, diar) == StartOnRow(row, FALSE, model_choice, diar)

on_translate(row, model_choice, diar) == StartOnRow(row, TRUE, model_choice, diar)

\* the GUI thread takes the next queued signal
Delivered(kind) ==
    /\ GuiThreadFree
    /\ sigq # <<>>
    /\ Head(sigq).sig = kind
    /\ sigq' = Tail(sigq)

\* on_transcription_progress: only the status bar changes
on_transcription_progress ==
    /\ Delivered("progress")
    /\ UNCHANGED <<rows, workers, batch, runs, dlvars, call>>

on_transcription_finished ==
    /\ Delivered("finished")
    /\ rows' = SetStatusByPath(rows, Head(sigq).path, STATUS_DONE)
    /\ UNCHANGED <<workers, batch, runs, dlvars, call>>

on_transcription_error ==
    /\ Delivered("error")
    /\ rows' = SetStatusByPath(rows, Head(sigq).path, STATUS_ERROR)
    /\ UNCHANGED <<workers, batch, runs, dlvars, call>>

\* run() of a QThread has returned and the thread ends
ThreadExit(w) ==
    /\ w \in ThreadIds
    /\ workers[w].pc = "done"
    /\ workers' = [workers EXCEPT ![w] = NoWorker]
    /\ UNCHANGED <<rows, sigq, batch, runs, dlvars, call>>

---------------------------------------------------------------------------
(* on_batch_run and TranscriptionEngine.transcribe_files *)

\* the paths of the rows whose status text is "Not Started", in row order
RECURSIVE NotStartedFiles(_)
NotStartedFiles(table) ==
    IF table = <<>> THEN <<>>
    ELSE (IF Head(table).status = STATUS_NOT_STARTED
          THEN <<Head(table).path>> ELSE <<>>)
         \o NotStartedFiles(Tail(table))

ResultDone == <<"Transcription done">>
ResultError(msg) == <<"Error: ">> \o msg

\* results[f].startswith("Error")
StartsWithError(result) == result[1] = "Error: "

\* results[fp] = value
SetResult(results, fp, value) == (fp :> value) @@ results

\* NextFile as it would be if an error left the loop
NextFileAbortOnError(i, n, failed) == IF failed THEN n + 1 ELSE i + 1

\* for fp in file_paths: the loop goes on to the next file, whatever
\* happened to this one
NextFile(i, n, failed) == i + 1

\* the terminal signals a worker emitted
Terminals(emitted) ==
    SelectSeq(emitted, LAMBDA s : s.sig \in {"finished", "error"})

\* on_batch_run up to the call of transcribe_files
on_batch_run_begin(model_choice, diar) ==
    LET not_started_files == NotStartedFiles(rows)
    IN  /\ GuiThreadFree
        /\ not_started_files # <<>>
        /\ batch' = [phase |-> "running",
                     file_paths |-> not_started_files,
                     i |-> 1,
                     results |-> <<>>,
                     invoked |-> <<>>,      \* history: the invocations so far
                     model_choice |-> model_choice,
                     diarization |-> diar]
        /\ UNCHANGED <<rows, workers, sigq, runs, dlvars, call>>

\* transcribe_files: worker = TranscriptionWorker(fp, ...) for the next file
transcribe_files_construct ==
    /\ batch.phase = "running"
    /\ batch.i <= Len(batch.file_paths)
    /\ workers[0].pc = "absent"
    /\ LET fp == batch.file_paths[batch.i]
       IN  \/ /\ workers' = [workers EXCEPT ![0] =
                               NewWorker(fp, FALSE, batch.diarization,
                                         batch.model_choice, FALSE)]
              /\ UNCHANGED batch
           \* the constructor raises: results[fp] = f"Error: {str(e)}"
           \/ /\ batch' = [batch EXCEPT
                             !.results = SetResult(@, fp, ResultError(MsgSpkrec)),
                             !.invoked = Append(@, [path |-> fp, ran |-> FALSE,
                                                    terminals |-> <<>>]),
                             !.i = NextFile(batch.i, Len(batch.file_paths), TRUE)]
              /\ UNCHANGED workers
    /\ UNCHANGED <<rows, sigq, runs, dlvars, call>>

\* transcribe_files: worker.run() has returned; results[fp] = "Transcription done"
transcribe_files_collect ==
    /\ batch.phase = "running"
    /\ workers[0].pc = "done"
    /\ LET fp == batch.file_paths[batch.i]
       IN  batch' = [batch EXCEPT
                       !.results = SetResult(@, fp, ResultDone),
                       !.invoked = Append(@, [path |-> fp, ran |-> TRUE,
                                              terminals |-> Terminals(workers[0].emitted)]),
                       !.i = NextFile(batch.i, Len(batch.file_paths), FALSE)]
    /\ workers' = [workers EXCEPT ![0] = NoWorker]
    /\ UNCHANGED <<rows, sigq, runs, dlvars, call>>

\* for f in results: ERROR when results[f] starts with "Error", else DONE
RECURSIVE ApplyResults(_, _, _)
ApplyResults(table, results, keys) ==
    IF keys = {} THEN table
    ELSE LET f == CHOOSE k \in keys : TRUE
             status == IF StartsWithError(results[f])
                       THEN STATUS_ERROR ELSE STATUS_DONE
         IN  ApplyResults(SetStatusByPath(table, f, status), results, keys \ {f})

\* on_batch_run after transcribe_files has returned
on_batch_run_end ==
    /\ batch.phase = "running"
    /\ batch.i > Len(batch.file_paths)
    /\ rows' = ApplyResults(rows, batch.results, DOMAIN batch.results)
    /\ batch' = IdleBatch
    /\ UNCHANGED <<workers, sigq, runs, dlvars, call>>

---------------------------------------------------------------------------
(* VideoDownloader and the download handlers of MainWindow *)

\* the texts typed into the URL box
U_ok == <<" ", "h", "t", "t", "p", ":", "/", "/", "h", "/", "v", " ">>
U_noscheme == <<"h", "/", "v">>
U_nonetloc == <<"h", "t", "t", "p", ":", "v">>
U_blank == <<" ", " ">>

UrlTexts == {U_ok, U_noscheme, U_nonetloc, U_blank}

\* str.find(c): the first index of c in s, 0 when absent (1-based)
Find(s, c) ==
    IF \E i \in 1..Len(s) : s[i] = c
    THEN CHOOSE i \in 1..Len(s) : s[i] = c /\ \A j \in 1..(i - 1) : s[j] # c
    ELSE 0

IsSchemeChar(c) ==
    \/ \E i \in 1..26 : LowerChars[i] = c \/ UpperChars[i] = c
    \/ \E i \in 1..10 : DigitChars[i] = c
    \/ c \in {"+", "-", "."}

\* urlparse(u): <<scheme, netloc>>.  The scheme is what stands before the
\* first colon when it is made of scheme characters; the netloc is what
\* follows "//" up to the next "/", "?" or "#"
urlparse(u) ==
    LET i == Find(u, ":")
        has_scheme == i > 1 /\ \A k \in 1..(i - 1) : IsSchemeChar(u[k])
        scheme == IF has_scheme THEN Lower(SubSeq(u, 1, i - 1)) ELSE <<>>
        rest == IF has_scheme THEN SubSeq(u, i + 1, Len(u)) ELSE u
        after == SubSeq(rest, 3, Len(rest))
        stops == {k \in 1..Len(after) : after[k] \in {"/", "?", "#"}}
        stop == IF stops = {} THEN Len(after) + 1
                ELSE CHOOSE k \in stops : \A j \in stops : k <= j
        netloc == IF Len(rest) >= 2 /\ rest[1] = "/" /\ rest[2] = "/"
                  THEN SubSeq(after, 1, stop - 1) ELSE <<>>
    IN  <<scheme, netloc>>

\* bool(parsed.scheme and parsed.netloc)
is_valid_url(u) == urlparse(u)[1] # <<>> /\ urlparse(u)[2] # <<>>

\* d['_percent_str'] as the downloader gives it to the hook
PercentStrs == { <<"5", "0", ".", "5", "%">>, <<"N", "/", "A", "%">> }

\* pct_str.replace('%', '')
WithoutPercent(s) == SelectSeq(s, LAMBDA c : c # "%")

\* float(pct_str) raises ValueError
NotAFloat(s) ==
    \/ s = <<>>
    \/ \E i \in 1..Len(s) : s[i] # "." /\ ~IsDigits(<<s[i]>>)
    \/ Cardinality({i \in 1..Len(s) : s[i] = "."}) > 1
    \/ \A i \in 1..Len(s) : s[i] = "."

\* float(pct_str), in tenths of a percent point
FloatTenths(s) ==
    LET dot == Find(s, ".")
        whole == IF dot = 0 THEN s ELSE SubSeq(s, 1, dot - 1)
        frac == IF dot = 0 THEN <<>> ELSE SubSeq(s, dot + 1, Len(s))
    IN  10 * ParseNat(whole) + (IF frac = <<>> THEN 0 ELSE DigitValue(frac[1]))

\* ydl.prepare_filename(info): temp_dir/title.ext
DownloadedFile == <<"/", "t", "m", "p", "/", "t", ".", "m", "4", "a">>

DlProgress(val) == [sig |-> "progress", val |-> val]
DlFinished(path) == [sig |-> "finished", path |-> path]
DlError(msg) == [sig |-> "error", msg |-> msg]

\* f"Download error: {err}" and str(e) of what extract_info raises
MsgHookError == <<"Download error: ", "Unknown error">>
MsgDownloadError == <<"yt_dlp.utils.DownloadError">>

\* VideoDownloader.__init__
NewDownloader(url) ==
    [ pc |-> "start",
      url |-> url,
      hooks |-> 0,          \* calls of progress_hook so far
      emitted |-> <<>> ]    \* every signal emitted, in order

\* one step of VideoDownloader.run(): new pc, one more hook call or not,
\* and the signals emitted
DlStep(d, pc, hooked, sigs) ==
    /\ downloads' = [downloads EXCEPT ![d] =
                       [@ EXCEPT !.pc = pc,
                                 !.hooks = IF hooked THEN @ + 1 ELSE @,
                                 !.emitted = @ \o sigs]]
    /\ dlq' = dlq \o sigs
    /\ UNCHANGED <<rows, workers, sigq, batch, runs, download_btn, call>>

\* run() up to the call of ydl.extract_info
DlRunStart(d) ==
    /\ downloads[d].pc = "start"
    /\ DlStep(d, "downloading", FALSE, <<>>)

\* progress_hook(d) with d['status'] == 'downloading'
DlHookDownloading(d) ==
    /\ downloads[d].pc = "downloading"
    /\ downloads[d].hooks < MaxHooks
    /\ \E percent_str \in PercentStrs :
         LET pct_str == WithoutPercent(percent_str)
         IN  IF NotAFloat(pct_str)
             THEN DlStep(d, "downloading", TRUE, <<>>)
             ELSE DlStep(d, "downloading", TRUE, <<DlProgress(FloatTenths(pct_str))>>)

\* progress_hook(d) with d['status'] == 'error': the hook emits error and
\* returns into the downloader
DlHookError(d) ==
    /\ downloads[d].pc = "downloading"
    /\ downloads[d].hooks < MaxHooks
    /\ DlStep(d, "hook_error", TRUE, <<DlError(MsgHookError)>>)

\* extract_info or prepare_filename raises: except Exception as e:
\* self.error.emit(str(e))
DlRaise(d) ==
    /\ downloads[d].pc \in {"downloading", "hook_error"}
    /\ DlStep(d, "done", FALSE, <<DlError(MsgDownloadError)>>)

\* extract_info returns: self.finished.emit(downloaded_file)
DlReturn(d) ==
    /\ downloads[d].pc \in {"downloading", "hook_error"}
    /\ DlStep(d, "done", FALSE, <<DlFinished(DownloadedFile)>>)

\* on_download_url: the Download button is clicked (it is enabled); an
\* exception of the constructor leaves the handler after the button has
\* been disabled
on_download_url(text) ==
    LET url_str == Strip(text)
    IN  /\ GuiThreadFree
        /\ download_btn
        /\ url_str # <<>>
        /\ is_valid_url(url_str)
        /\ Len(downloads) < MaxDownloads
        /\ download_btn' = FALSE
        /\ \/ downloads' = Append(downloads, NewDownloader(url_str))
           \/ UNCHANGED downloads
        /\ UNCHANGED <<rows, workers, sigq, batch, runs, dlq, call>>

\* the GUI thread takes the next queued signal of a downloader
DlDelivered(kind) ==
    /\ GuiThreadFree
    /\ dlq # <<>>
    /\ Head(dlq).sig = kind
    /\ dlq' = Tail(dlq)

\* on_download_progress: only the status bar changes
on_download_progress ==
    /\ DlDelivered("progress")
    /\ UNCHANGED <<rows, workers, sigq, batch, runs, downloads, download_btn, call>>

on_download_finished ==
    /\ DlDelivered("finished")
    /\ Len(rows) < MaxRows
    /\ download_btn' = TRUE
    /\ rows' = add_file_to_table(rows, Head(dlq).path)
    /\ UNCHANGED <<workers, sigq, batch, runs, downloads, call>>

on_download_error ==
    /\ DlDelivered("error")
    /\ download_btn' = TRUE
    /\ UNCHANGED <<rows, workers, sigq, batch, runs, downloads, call>>

DownloadIds == 1..Len(downloads)

---------------------------------------------------------------------------
(* The helpers of TranscriptionWorker called on their own *)

NoCall == [fn |-> "none"]

\* the seconds given to format_timestamp, in tenths: around the hour, the
\* day and a hundred hours, with and without a fraction
TimeInputs ==
    { h * 36000 + m * 600 + s * 10 + f :
        h \in {0, 1, 23, 24, 99, 100, 123}, m \in {0, 2, 59}, s \in {0, 5, 59},
        f \in {0, 9} }

\* the paths given to extract_audio_if_needed
NormalizeInputs == AllPaths

\* fn(arg) has been called and has not returned; first is the input of the
\* call before it when arg is that call's result
Called(fn, arg, first) ==
    [fn |-> fn, arg |-> arg, state |-> "called", first |-> first]

\* format_timestamp(sec) returns
ApplyFormatTimestamp ==
    /\ call.fn = "format_timestamp"
    /\ call.state = "called"
    /\ call' = [fn |-> call.fn, arg |-> call.arg, state |-> "returned",
                first |-> call.first, ret |-> format_timestamp(call.arg)]
    /\ UNCHANGED <<rows, workers, sigq, batch, runs, dlvars>>

\* extract_audio_if_needed(path) returns or raises
ApplyExtractAudio ==
    /\ call.fn = "extract_audio_if_needed"
    /\ call.state = "called"
    /\ \E o \in extract_audio_if_needed(call.arg) :
         call' = [fn |-> call.fn, arg |-> call.arg,
                  state |-> IF o.raised THEN "raised" ELSE "returned",
                  first |-> call.first, ret |-> o.ret, ffmpeg |-> o.ffmpeg,
                  tmp_wav |-> o.tmp_wav]
    /\ UNCHANGED <<rows, workers, sigq, batch, runs, dlvars>>

\* extract_audio_if_needed is called on the path it has just returned
ExtractAudioAgain ==
    /\ call.fn = "extract_audio_if_needed"
    /\ call.state = "returned"
    /\ call.first = NoPath
    /\ call' = Called(call.fn, call.ret, call.arg)
    /\ UNCHANGED <<rows, workers, sigq, batch, runs, dlvars>>

InitHelpers ==
    /\ rows = <<>>
    /\ workers = [w \in WorkerIds |-> NoWorker]
    /\ sigq = <<>>
    /\ batch = IdleBatch
    /\ runs = 0
    /\ downloads = <<>>
    /\ dlq = <<>>
    /\ download_btn = TRUE
    /\ call \in { Called("format_timestamp", t, NoPath) : t \in TimeInputs }
                \cup { Called("extract_audio_if_needed", p, NoPath) :
                         p \in NormalizeInputs }

NextHelpers ==
    \/ ApplyFormatTimestamp
    \/ ApplyExtractAudio
    \/ ExtractAudioAgain

SpecHelpers == InitHelpers /\ [][NextHelpers]_vars

---------------------------------------------------------------------------
(* Specifications *)

\* the window as constructed: an empty table, no worker
Init ==
    /\ rows = <<>>
    /\ workers = [w \in WorkerIds |-> NoWorker]
    /\ sigq = <<>>
    /\ batch = IdleBatch
    /\ runs = 0
    /\ downloads = <<>>
    /\ dlq = <<>>
    /\ download_btn = TRUE
    /\ call = NoCall

Next ==
    \/ \E p \in GuiPaths : on_browse(p)
    \/ \E r \in 1..Len(rows), m \in GuiModels, d \in BOOLEAN : on_transcribe(r, m, d)
    \/ \E r \in 1..Len(rows), m \in GuiModels, d \in BOOLEAN : on_translate(r, m, d)
    \/ on_transcription_progress
    \/ on_transcription_finished
    \/ on_transcription_error
    \/ \E m \in GuiModels, d \in BOOLEAN : on_batch_run_begin(m, d)
    \/ transcribe_files_construct
    \/ transcribe_files_collect
    \/ on_batch_run_end
    \/ \E w \in WorkerIds : RunStart(w)
    \/ \E w \in WorkerIds : RunValidate(w)
    \/ \E w \in WorkerIds : RunExtract(w)
    \/ \E w \in WorkerIds : RunLoadModel(w)
    \/ \E w \in WorkerIds : RunTranscribe(w)
    \/ \E w \in WorkerIds : DiarSlice(w)
    \/ \E w \in WorkerIds : DiarTag(w)
    \/ \E w \in WorkerIds : RunFinish(w)
    \/ \E w \in WorkerIds : RunCleanup(w)
    \/ \E w \in ThreadIds : ThreadExit(w)

Spec == Init /\ [][Next]_vars

\* one file in the table, Transcribe or Translate just clicked on it: the
\* worker of start_transcription_thread is about to run
InitPipeline ==
    \E p \in AllPaths, tr \in BOOLEAN, d \in BOOLEAN, m \in ModelChoices :
        /\ rows = <<Row(p, STATUS_IN_PROGRESS)>>
        /\ workers = [w \in WorkerIds |->
                        IF w = 1 THEN NewWorker(p, tr, d, m, TRUE) ELSE NoWorker]
        /\ sigq = <<>>
        /\ batch = IdleBatch
        /\ runs = 1
        /\ downloads = <<>>
        /\ dlq = <<>>
        /\ download_btn = TRUE
        /\ call = NoCall

NextPipeline ==
    \/ RunStart(1)
    \/ RunValidate(1)
    \/ RunExtract(1)
    \/ RunLoadModel(1)
    \/ RunTranscribe(1)
    \/ DiarSlice(1)
    \/ DiarTag(1)
    \/ RunFinish(1)
    \/ RunCleanup(1)
    \/ on_transcription_progress
    \/ on_transcription_finished
    \/ on_transcription_error

SpecPipeline == InitPipeline /\ [][NextPipeline]_vars

\* the window with batch_processing on, used for batch runs only: files
\* are added and Run Batch is clicked
NextBatch ==
    \/ \E p \in BatchPaths : on_browse(p)
    \/ \E m \in ModelChoices, d \in BOOLEAN : on_batch_run_begin(m, d)
    \/ transcribe_files_construct
    \/ transcribe_files_collect
    \/ on_batch_run_end
    \/ RunStart(0)
    \/ RunValidate(0)
    \/ RunExtract(0)
    \/ RunLoadModel(0)
    \/ RunTranscribe(0)
    \/ DiarSlice(0)
    \/ DiarTag(0)
    \/ RunFinish(0)
    \/ RunCleanup(0)

SpecBatch == Init /\ [][NextBatch]_vars

\* the window used for downloads only
NextDownload ==
    \/ \E text \in UrlTexts : on_download_url(text)
    \/ \E d \in DownloadIds : DlRunStart(d)
    \/ \E d \in DownloadIds : DlHookDownloading(d)
    \/ \E d \in DownloadIds : DlHookError(d)
    \/ \E d \in DownloadIds : DlRaise(d)
    \/ \E d \in DownloadIds : DlReturn(d)
    \/ on_download_progress
    \/ on_download_finished
    \/ on_download_error

SpecDownload == Init /\ [][NextDownload]_vars

---------------------------------------------------------------------------
(* Properties of one pipeline invocation *)

\* the workers whose run() has returned
Ended == {w \in WorkerIds : workers[w].pc = "done"}

Present == {w \in WorkerIds : workers[w].pc # "absent"}

\* the progress values a worker emitted, in order
ProgressValues(emitted) ==
    LET ps == SelectSeq(emitted, LAMBDA s : s.sig = "progress")
    IN  [i \in 1..Len(ps) |-> ps[i].val]

TerminalKinds(emitted) ==
    LET ts == Terminals(emitted) IN [i \in 1..Len(ts) |-> ts[i].sig]

ErrorsOf(emitted) == SelectSeq(emitted, LAMBDA s : s.sig = "error")

\* C1: every invocation of run() that has ended has emitted exactly one
\* terminal signal, finished or error, never both and never neither.
C1_ExactlyOneTerminal ==
    \A w \in Ended : Len(Terminals(workers[w].emitted)) = 1

\* C5: when run() has ended and normalization had created a temporary wav,
\* that file has been removed.
C5_TempRemovedAtEnd ==
    \A w \in Ended :
        workers[w].extracted_audio = TmpWavPath => workers[w].tmp_wav = "removed"

\* C6: when run() has ended after an error, at whatever step, one error
\* signal carries the file path and the message, and the log holds a line
\* with that path and message.
C6_ErrorsLoggedAndSurfaced ==
    \A w \in Ended :
        workers[w].failed_at # "none" =>
            LET errs == ErrorsOf(workers[w].emitted)
            IN  /\ Len(errs) = 1
                /\ errs[1].path = workers[w].file_path
                /\ errs[1].msg # <<>>
                /\ \E k \in 1..Len(workers[w].logged) :
                      /\ workers[w].logged[k].path = workers[w].file_path
                      /\ workers[w].logged[k].level = "ERROR"

\* C7: the progress values of an invocation are integers in 0..100 in
\* non-decreasing order; 100 is emitted only by an invocation that ends in
\* success (finished and no error); a successful run without diarization
\* ends its progress at 100.
C7_ProgressContract ==
    \A w \in Present :
        LET ps == ProgressValues(workers[w].emitted)
            ts == TerminalKinds(workers[w].emitted)
        IN  /\ \A i \in 1..Len(ps) : ps[i] \in 0..100
            /\ \A i \in 1..(Len(ps) - 1) : ps[i] <= ps[i + 1]
            /\ (w \in Ended /\ \E i \in 1..Len(ps) : ps[i] = 100)
                  => ts = <<"finished">>
            /\ (w \in Ended /\ ts = <<"finished">> /\ ~workers[w].do_diarization)
                  => (ps # <<>> /\ ps[Len(ps)] = 100)

\* C8: no progress signal of an invocation follows one of its terminal
\* signals.
C8_ProgressBeforeTerminal ==
    \A w \in Present :
        LET em == workers[w].emitted
        IN  \A i \in 1..Len(em), j \in 1..Len(em) :
                (i < j /\ em[i].sig \in {"finished", "error"})
                    => em[j].sig # "progress"

\* an invocation that ended after all its progress and one terminal signal
C8_Witness ==
    \E w \in Ended :
        /\ Len(ProgressValues(workers[w].emitted)) >= 4
        /\ Terminals(workers[w].emitted) # <<>>

\* two extensions equal up to the case of their letters
EqIgnoreCase(a, b) ==
    /\ Len(a) = Len(b)
    /\ \A i \in 1..Len(a) : LowerChar(a[i]) = LowerChar(b[i])

\* the extension of the path as given is, up to case, a supported one
SupportedIgnoringCase(path) ==
    \E e \in supported_extensions : EqIgnoreCase(splitext(path)[2], e)

PastValidation(w) == workers[w].pc \notin {"absent", "start", "validate"}

\* C9: the extension check lets a file through exactly when its extension
\* is, case-insensitively, in supported_extensions; any other file ends
\* the invocation with the unsupported-extension error after progress 10,
\* with no collaborator called and no temporary file.
C9_ExtensionValidation ==
    \A w \in WorkerIds :
        PastValidation(w) =>
            LET me == workers[w]
            IN  IF SupportedIgnoringCase(me.file_path)
                THEN me.failed_at # "validate"
                     /\ (me.pc = "extract" \/ "extract_audio_if_needed" \in me.calls)
                ELSE /\ me.pc = "done"
                     /\ me.failed_at = "validate"
                     /\ me.calls = {}
                     /\ me.tmp_wav = "none"
                     /\ me.extracted_audio = NoPath
                     /\ me.emitted =
                          << Progress(10),
                             Error(me.file_path,
                                   MsgUnsupported(Lower(splitext(me.file_path)[2]))) >>

\* a file with an upper-case supported extension got past the check
C9_Witness ==
    \E w \in WorkerIds :
        /\ PastValidation(w)
        /\ workers[w].file_path = P_A
        /\ "extract_audio_if_needed" \in workers[w].calls

IsModelError(sig) == sig.sig = "error" /\ sig.msg[1] = "Model loading error: "

\* C10: when model acquisition fails (a model not in valid_models, or a
\* load that raises) the invocation ends with one error signal marked as a
\* model loading error, which no other failure carries; model.transcribe is
\* not called and no progress follows the 30 of normalization.  A model
\* not in valid_models is never loaded.
C10_ModelFailure ==
    \A w \in Present :
        LET me == workers[w]
        IN  /\ me.failed_at = "load" =>
                /\ me.pc = "done"
                /\ Len(Terminals(me.emitted)) = 1
                /\ IsModelError(me.emitted[Len(me.emitted)])
                /\ me.emitted[Len(me.emitted)].path = me.file_path
                /\ "model.transcribe" \notin me.calls
                /\ ProgressValues(me.emitted) = <<10, 30>>
            /\ (me.failed_at \notin {"load", "none"}) =>
                \A k \in 1..Len(me.emitted) : ~IsModelError(me.emitted[k])
            /\ (me.model_choice \notin valid_models
                  /\ me.pc \notin {"start", "validate", "extract", "load"}) =>
                /\ me.failed_at \in {"validate", "extract", "load"}
                /\ "whisper.load_model" \notin me.calls
                /\ "model.transcribe" \notin me.calls

\* an invocation with a model outside valid_models has ended
C10_Witness ==
    \E w \in Ended :
        /\ workers[w].model_choice \notin valid_models
        /\ workers[w].failed_at = "load"

---------------------------------------------------------------------------
(* Properties of batch runs and of the file table *)

InvocationFailed(inv) ==
    ~inv.ran \/ \E k \in 1..Len(inv.terminals) : inv.terminals[k].sig = "error"

InvocationSucceeded(inv) ==
    inv.ran /\ Len(inv.terminals) = 1 /\ inv.terminals[1].sig = "finished"

\* C2: when on_batch_run returns, every file whose invocation failed is in
\* status ERROR with an error outcome recorded, and every file whose
\* invocation succeeded is in status DONE with the success outcome.
C2_BatchStatuses ==
    [][ (batch.phase = "running" /\ batch'.phase = "idle") =>
          \A k \in 1..Len(batch.invoked) :
              LET inv == batch.invoked[k]
                  row == find_row_by_path(rows, inv.path)
              IN  /\ InvocationFailed(inv) =>
                        /\ rows'[row].status = STATUS_ERROR
                        /\ StartsWithError(batch.results[inv.path])
                  /\ InvocationSucceeded(inv) =>
                        /\ rows'[row].status = STATUS_DONE
                        /\ batch.results[inv.path] = ResultDone ]_vars

\* C3: during transcribe_files the files are invoked one at a time in list
\* order, each after the one before it has ended, whatever the earlier
\* ones did; when it returns every file of the list has been invoked and
\* has an outcome in the mapping.
C3_BatchNeverAborts ==
    batch.phase = "running" =>
        LET n == Len(batch.file_paths)
            done == Len(batch.invoked)
        IN  /\ done <= n
            /\ \A k \in 1..done : batch.invoked[k].path = batch.file_paths[k]
            /\ DOMAIN batch.results = {batch.file_paths[k] : k \in 1..done}
            /\ batch.i = done + 1
            /\ workers[0].pc # "absent" =>
                  (done < n /\ workers[0].file_path = batch.file_paths[done + 1])
            /\ batch.i > n => done = n

\* transcribe_files is about to return from a list of two files whose first
\* invocation failed
C3_Witness ==
    /\ batch.phase = "running"
    /\ Len(batch.file_paths) >= 2
    /\ batch.i > Len(batch.file_paths)
    /\ InvocationFailed(batch.invoked[1])
    /\ batch.invoked[1].ran

AllowedTransitions ==
    { <<STATUS_NOT_STARTED, STATUS_IN_PROGRESS>>,
      <<STATUS_IN_PROGRESS, STATUS_DONE>>,
      <<STATUS_IN_PROGRESS, STATUS_ERROR>>,
      <<STATUS_DONE, STATUS_IN_PROGRESS>>,
      <<STATUS_ERROR, STATUS_IN_PROGRESS>> }

\* C4: every change of a row's status is a transition of the status state
\* machine; in particular DONE and ERROR are entered only from IN_PROGRESS.
C4_StatusTransitions ==
    [][ \A r \in 1..Len(rows) :
            rows'[r].status # rows[r].status =>
                <<rows[r].status, rows'[r].status>> \in AllowedTransitions ]_vars

---------------------------------------------------------------------------
(* Properties of the window: which pipeline executions are live *)

\* a terminal signal waits in the GUI thread's queue
TerminalPending ==
    \E k \in 1..Len(sigq) : sigq[k].sig \in {"finished", "error"}

\* run() of worker w has been entered and has not returned
Running(w) == workers[w].pc \notin {"absent", "done"}

\* C11: a pipeline invocation starts (a TranscriptionWorker is constructed
\* by Transcribe, Translate or Run Batch) only when no other invocation is
\* running and no terminal signal of an earlier one is still undelivered.
C11_OneLivePipeline ==
    [][ \A w \in WorkerIds :
            (workers[w].pc = "absent" /\ workers'[w].pc = "start") =>
                /\ \A v \in WorkerIds \ {w} : ~Running(v)
                /\ ~TerminalPending ]_vars

---------------------------------------------------------------------------
(* Properties of the assembled transcript *)

\* the invocation got as far as its transcript
Assembled(w) ==
    /\ workers[w].pc \in {"finish", "cleanup", "done"}
    /\ workers[w].failed_at \in {"none", "cleanup"}

\* the segment texts, each trimmed of leading and trailing whitespace
TrimmedTexts(segments) == [i \in 1..Len(segments) |-> Strip(segments[i].text)]

\* C12: without diarization the transcript of N segments is their N texts,
\* each trimmed of leading and trailing whitespace, joined by newlines in
\* input order, with nothing else in it.
C12_PlainTranscript ==
    \A w \in Present :
        (Assembled(w) /\ ~workers[w].do_diarization) =>
            workers[w].final_text = Join(TrimmedTexts(workers[w].segments), <<"\n">>)

\* the lines of a text: the pieces between its newlines, none for the
\* empty text
RECURSIVE SplitLines(_)
SplitLines(s) ==
    IF \E i \in 1..Len(s) : s[i] = "\n"
    THEN LET k == CHOOSE i \in 1..Len(s) :
                     s[i] = "\n" /\ \A j \in 1..(i - 1) : s[j] # "\n"
         IN  <<SubSeq(s, 1, k - 1)>> \o SplitLines(SubSeq(s, k + 1, Len(s)))
    ELSE <<s>>

LinesOf(text) == IF text = <<>> THEN <<>> ELSE SplitLines(text)

\* line is `[start - end] label: text` of the segment, for some label
IsLineOf(line, seg) ==
    \E label \in SpeakerIds :
        line = <<"[">> \o format_timestamp(seg.start) \o <<" ", "-", " ">>
                   \o format_timestamp(seg.end) \o <<"]", " ">> \o label
                   \o <<":", " ">> \o Strip(seg.text)

\* C13: with diarization the transcript of N segments has exactly N lines,
\* line i being `[start - end] label: text` of segment i with the times as
\* HH:MM:SS and the text trimmed, in the order of the segments, with no
\* blank line and no separator after the last line.
C13_DiarizedTranscript ==
    \A w \in Present :
        (Assembled(w) /\ workers[w].do_diarization) =>
            LET lines == LinesOf(workers[w].final_text)
                segs == workers[w].segments
            IN  /\ Len(lines) = Len(segs)
                /\ \A i \in 1..Len(segs) : IsLineOf(lines[i], segs[i])
                /\ \A i \in 1..Len(lines) : lines[i] # <<>>

\* a diarized invocation of a file with several segments, whose texts have
\* blanks to trim, has ended in success
C13_Witness ==
    \E w \in Ended :
        /\ workers[w].do_diarization
        /\ workers[w].failed_at = "none"
        /\ Len(workers[w].segments) >= 2
        /\ \E i \in 1..Len(workers[w].segments) :
              Strip(workers[w].segments[i].text) # workers[w].segments[i].text

---------------------------------------------------------------------------
(* Properties of the helpers *)

T_000000 == <<"0", "0", ":", "0", "0", ":", "0", "0">>
T_010205 == <<"0", "1", ":", "0", "2", ":", "0", "5">>

\* C14: format_timestamp gives HH:MM:SS for every non-negative time: the
\* three fields are decimal numbers H, M < 60 and S < 60 with
\* H * 3600 + M * 60 + S the whole seconds of the time (the fraction is
\* dropped), minutes and seconds of two digits, hours of two digits or as
\* many as the number needs, never wrapped; 0 gives 00:00:00, 3725 and
\* 3725.9 give 01:02:05.
C14_FormatTimestamp ==
    (call.fn = "format_timestamp" /\ call.state = "returned") =>
        LET r == call.ret
            n == Len(r)
            hh == SubSeq(r, 1, n - 6)
            mm == SubSeq(r, n - 4, n - 3)
            ss == SubSeq(r, n - 1, n)
        IN  /\ n >= 8
            /\ r[n - 5] = ":" /\ r[n - 2] = ":"
            /\ IsDigits(hh) /\ IsDigits(mm) /\ IsDigits(ss)
            /\ Len(hh) > 2 => hh[1] # "0"
            /\ ParseNat(mm) < 60 /\ ParseNat(ss) < 60
            /\ ParseNat(hh) * 3600 + ParseNat(mm) * 60 + ParseNat(ss)
                  = call.arg \div 10
            /\ call.arg = 0 => r = T_000000
            /\ call.arg \in {37250, 37259} => r = T_010205

\* format_timestamp has returned for a time of a hundred hours or more
\* with a fraction of a second
C14_Witness ==
    /\ call.fn = "format_timestamp"
    /\ call.state = "returned"
    /\ call.arg >= 3600000
    /\ call.arg % 10 # 0

\* the extension of the path as given is, up to case, a pure-audio one
AudioIgnoringCase(path) ==
    \E e \in audio_exts : EqIgnoreCase(splitext(path)[2], e)

\* C15: extract_audio_if_needed on a path whose extension is, up to case,
\* a pure-audio one returns that path, calls no ffmpeg and makes no
\* temporary file, and called again on its result returns it again; on any
\* other path, when it returns, it returns a temporary path other than the
\* input, made by ffmpeg.
C15_NormalizeIdempotent ==
    (call.fn = "extract_audio_if_needed" /\ call.state \in {"returned", "raised"}) =>
        /\ IF AudioIgnoringCase(call.arg)
           THEN /\ call.state = "returned"
                /\ call.ret = call.arg
                /\ ~call.ffmpeg
                /\ call.tmp_wav = "none"
           ELSE call.state = "returned" =>
                   /\ call.ret # call.arg
                   /\ call.ret = TmpWavPath
                   /\ call.ffmpeg
                   /\ call.tmp_wav = "exists"
        /\ (call.first # NoPath /\ AudioIgnoringCase(call.first)) =>
              (call.arg = call.first /\ call.ret = call.first)

\* an upper-case pure-audio path has been normalized twice
C15_Witness ==
    /\ call.fn = "extract_audio_if_needed"
    /\ call.state = "returned"
    /\ call.first = P_A
    /\ call.arg = P_A

---------------------------------------------------------------------------
(* Properties of the temporary slice files and of the file table *)

\* C16: a slice file exists only while its segment is being tagged: it is
\* gone before the next segment is sliced and once perform_diarization has
\* been left, by its return or by an exception of the slicing, the tagging
\* or the removal.
C16_SliceReleased ==
    \A w \in Present :
        workers[w].seg_wav = "exists" => workers[w].pc = "tag"

\* the GUI thread handles an error signal in this step
HandlesError ==
    /\ GuiThreadFree
    /\ sigq # <<>>
    /\ Head(sigq).sig = "error"
    /\ sigq' = Tail(sigq)

\* C17: when on_transcription_error handles the error signal of path p,
\* the table keeps its rows, the entry of p (the first row holding p, as
\* find_row_by_path finds it) is in status ERROR afterwards, and every row
\* holding another path is as it was.
C17_ErrorMarksOnlyItsFile ==
    [][ HandlesError =>
          LET p == Head(sigq).path
          IN  /\ Len(rows') = Len(rows)
              /\ \E r \in 1..Len(rows) :
                    /\ rows[r].path = p
                    /\ \A q \in 1..(r - 1) : rows[q].path # p
                    /\ rows'[r] = Row(p, STATUS_ERROR)
              /\ \A r \in 1..Len(rows) :
                    rows[r].path # p => rows'[r] = rows[r] ]_vars

\* the error of the one worker thread has been handled while the table
\* held a second file, which is still not started
C17_Witness ==
    /\ sigq = <<>>
    /\ batch.phase = "idle"
    /\ workers[1].pc = "done"
    /\ workers[1].failed_at \notin {"none", "cleanup"}
    /\ Len(rows) = 2
    /\ \E r \in 1..2 :
          /\ rows[r] = Row(workers[1].file_path, STATUS_ERROR)
          /\ rows[3 - r].path # workers[1].file_path
          /\ rows[3 - r].status = STATUS_NOT_STARTED

\* C18: a row is created in status NOT_STARTED, rows are never removed or
\* given another path, and a row that is not in NOT_STARTED is not in
\* NOT_STARTED after any step.
C18_NoReturnToNotStarted ==
    [][ /\ Len(rows') >= Len(rows)
        /\ \A r \in 1..Len(rows) :
              /\ rows'[r].path = rows[r].path
              /\ rows[r].status # STATUS_NOT_STARTED
                    => rows'[r].status # STATUS_NOT_STARTED
        /\ \A r \in (Len(rows) + 1)..Len(rows') :
              rows'[r].status = STATUS_NOT_STARTED ]_vars

\* a file has been added after the run of an earlier one ended
C18_Witness ==
    /\ Len(rows) = 2
    /\ rows[1].status \in {STATUS_DONE, STATUS_ERROR}
    /\ rows[2].status = STATUS_NOT_STARTED
    /\ runs = 1
    /\ sigq = <<>>
    /\ workers[1].pc = "absent"

---------------------------------------------------------------------------
(* Properties of the files an invocation touches *)

\* C19: an invocation never gives its input path to os.remove and never
\* makes it the output of ffmpeg: the normalization and the slices write
\* to temporary paths, and the cleanup removes the normalized file only
\* when it is not the input, also for a pure-audio input that the
\* normalization returned as it was.
C19_InputFileUntouched ==
    \A w \in Present :
        /\ workers[w].file_path \notin workers[w].removed
        /\ workers[w].file_path \notin workers[w].written
        /\ workers[w].removed \cup workers[w].written \subseteq {TmpWavPath, SegWavPath}

\* a diarized invocation on a pure-audio file has ended in success, its
\* slices written and removed
C19_Witness ==
    \E w \in Ended :
        /\ workers[w].extracted_audio = workers[w].file_path
        /\ workers[w].failed_at = "none"
        /\ SegWavPath \in workers[w].removed

---------------------------------------------------------------------------
(* Properties of one download *)

\* C20: every run() of a VideoDownloader that has ended has emitted
\* exactly one terminal signal, finished with the file or error with a
\* message, also when the progress hook was called with an error status.
C20_OneDownloadTerminal ==
    \A d \in DownloadIds :
        downloads[d].pc = "done" => Len(Terminals(downloads[d].emitted)) = 1

---------------------------------------------------------------------------
(* Properties of a failed diarization and of the Download button *)

\* C21: when the slice of a segment or the work after it fails, the
\* invocation ends there: its only terminal signal is error for its path,
\* no finished and no transcript is emitted, the lines made so far are
\* those of the segments before the failure and no later segment is
\* sliced or tagged.
C21_DiarizationAborts ==
    \A w \in Present :
        LET me == workers[w]
        IN  me.failed_at \in {"slice", "remove_slice"} =>
                /\ me.pc = "done"
                /\ Len(Terminals(me.emitted)) = 1
                /\ Terminals(me.emitted)[1].sig = "error"
                /\ Terminals(me.emitted)[1].path = me.file_path
                /\ me.final_text = <<>>
                /\ ProgressValues(me.emitted) = <<10, 30, 40, 70>>
                /\ Len(me.diarized_output) =
                      IF me.failed_at = "slice" THEN me.seg_i - 1 ELSE me.seg_i

\* the slice of a segment failed after an earlier segment had its line and
\* with a later segment still to come
C21_Witness ==
    \E w \in Ended :
        /\ workers[w].failed_at = "slice"
        /\ workers[w].diarized_output # <<>>
        /\ workers[w].seg_i < Len(workers[w].segments)

\* the run() of downloader d has not returned
DlLive(d) == downloads[d].pc # "done"

\* C22: while the run() of a downloader is live the Download button is
\* disabled, so no second downloader is started beside it: at most one is
\* live at any time.
C22_DownloadButtonGuard ==
    /\ (\E d \in DownloadIds : DlLive(d)) => ~download_btn
    /\ Cardinality({d \in DownloadIds : DlLive(d)}) <= 1

===========================================================================
